---- MODULE Spec2Model ----
(***************************************************************************)
(* piazza-cli: the semantic search of a course (_alt_search_in_course),    *)
(* its process-wide post cache POST_CACHE, the page walk over get_feed,    *)
(* the embedding / ranking path and the keyword fallback.                  *)
(*                                                                         *)
(* Text is a sequence of one-character strings, a post dict of the feed is *)
(* a record, and the posts a list holds are named by their number 'nr'.    *)
(***************************************************************************)
EXTENDS Integers, Sequences, FiniteSets, TLC

(***************************************************************************)
(* Bounds of the model.                                                    *)
(***************************************************************************)
\* the clock is read after at most this many advances
MaxTicks == 2
\* the post view handles at most this many up and down key events
MaxKeys == 4
\* the same vectors are attached to an entry at most this many times in a row
MaxAttaches == 2

(***************************************************************************)
(* Program constants.                                                      *)
(***************************************************************************)
CACHE_EXPIRY_SECONDS == 3600
\* limit = 50 in the page walk
limit == 50
\* top_k of util.semantic_search
top_k == 30

(***************************************************************************)
(* Python text operations.                                                 *)
(***************************************************************************)
Whitespace == {" ", "\t", "\n", "\r", "\f"}

\* str.lower() on one character
LowerChar(c) ==
    CASE c = "A" -> "a"
      [] c = "B" -> "b"
      [] c = "C" -> "c"
      [] c = "D" -> "d"
      [] c = "P" -> "p"
      [] c = "X" -> "x"
      [] c = "Y" -> "y"
      [] c = "Z" -> "z"
      [] OTHER -> c

\* str.lower()
Lower(s) == [i \in 1..Len(s) |-> LowerChar(s[i])]

\* needle in hay (Python substring test)
Contains(needle, hay) ==
    \E i \in 0..(Len(hay) - Len(needle)) :
        SubSeq(hay, i + 1, i + Len(needle)) = needle

RECURSIVE LStrip(_)
LStrip(s) == IF s # <<>> /\ Head(s) \in Whitespace THEN LStrip(Tail(s)) ELSE s

RECURSIVE RStrip(_)
RStrip(s) ==
    IF s # <<>> /\ s[Len(s)] \in Whitespace
    THEN RStrip(SubSeq(s, 1, Len(s) - 1))
    ELSE s

\* str.strip()
Strip(s) == RStrip(LStrip(s))

\* dict.get(key, default)
Get(d, key, default) == IF key \in DOMAIN d THEN d[key] ELSE default

\* the empty dict {}
EmptyDict == [k \in {} |-> <<>>]

(***************************************************************************)
(* html_to_markdown.  With html2text installed it is HTML2Text.handle,     *)
(* which drops the tags and ends the text with a blank line; without it,   *)
(* re.sub('<[^<]+?>', '', html or '').                                     *)
(***************************************************************************)
\* the least j > i + 1 with s[j] = ">" and no "<" in s[i+1..j-1], or 0
TagEnd(s, i) ==
    LET ends == { j \in (i + 2)..Len(s) :
                    /\ s[j] = ">"
                    /\ \A k \in (i + 1)..(j - 1) : s[k] # "<" }
    IN  IF ends = {} THEN 0 ELSE CHOOSE j \in ends : \A k \in ends : j <= k

RECURSIVE StripTagsFrom(_, _)
StripTagsFrom(s, i) ==
    IF i > Len(s) THEN <<>>
    ELSE IF s[i] = "<" /\ TagEnd(s, i) # 0
         THEN StripTagsFrom(s, TagEnd(s, i) + 1)
         ELSE <<s[i]>> \o StripTagsFrom(s, i + 1)

\* re.sub('<[^<]+?>', '', html or '')
StripTags(html) == StripTagsFrom(html, 1)

\* _html2md.handle(html)
Html2TextHandle(html) == StripTags(html) \o <<"\n", "\n">>

html_to_markdown(html, html2text) ==
    IF html2text THEN Html2TextHandle(html) ELSE StripTags(html)

(***************************************************************************)
(* Option values: None is <<>>, a present value x is <<x>>.                *)
(***************************************************************************)
None == <<>>
Some(x) == <<x>>
Val(o) == o[1]

\* Truthy taking every value but None for true
Truthy_NotNone(o) == o # None

\* Python truth value of a str, list or None held as an option of a sequence
Truthy(o) == o # None /\ Val(o) # <<>>

(***************************************************************************)
(* The posts of a feed.  The post numbered nr carries one of these dicts   *)
(* (subject and preview may be missing, empty, blank or mixed case).       *)
(***************************************************************************)
PostKinds ==
    << [subject |-> <<"A", "b">>,
        preview |-> [text |-> <<"c", "d">>,
                     html |-> <<"<", "p", ">", "c", "d", "<", "/", "p", ">">>]],
       [subject |-> <<>>,
        preview |-> [text |-> <<>>, html |-> <<>>]],
       [preview |-> [text |-> <<"a", "B">>, html |-> <<"a", "B">>]],
       [subject |-> <<" ">>],
       [subject |-> <<"x", "a">>,
        preview |-> [text |-> <<"b", "y">>,
                     html |-> <<"<", "b", ">", "b", "y", "<", "/", "b", ">">>]] >>

\* the dict of post nr as get_feed returns it
PostData(nr) == PostKinds[((nr - 1) % Len(PostKinds)) + 1]

\* what the user may type at the query prompt (None: the prompt was aborted)
Queries ==
    { None,
      Some(<<>>),
      Some(<<"a", "b">>),
      Some(<<"B", " ", "C">>) }

\* the sizes a course's feed may have
FeedSizes == {0, 1, 2, limit, limit + 1}

\* net.get_feed(limit=lim, offset=off)['feed'] on a feed of n posts
FeedPage(n, lim, off) ==
    [i \in 1..(IF off >= n THEN 0 ELSE IF off + lim <= n THEN lim ELSE n - off)
        |-> off + i]

(***************************************************************************)
(* The embedding model.  A vector is held as one number drawn from the     *)
(* letters of the text, and two vectors are the more similar the closer    *)
(* their numbers are.                                                      *)
(***************************************************************************)
RECURSIVE CountIn(_, _)
CountIn(s, chars) ==
    IF s = <<>> THEN 0
    ELSE (IF Head(s) \in chars THEN 1 ELSE 0) + CountIn(Tail(s), chars)

\* sentence_model.encode(text)
EncodeText(text) ==
    4 * CountIn(text, {"a", "A"}) + 2 * CountIn(text, {"b", "B"})
        + CountIn(text, {"c", "C", "d", "D"})

\* sentence_model.encode(texts)
EncodeAll(texts) == [i \in 1..Len(texts) |-> EncodeText(texts[i])]

\* the similarity score of a query vector and a corpus vector
Score(q, v) == IF q >= v THEN v - q ELSE q - v

\* hit i comes before hit j: the higher score first, equal scores by rising id
Before(i, j, q, vecs) ==
    \/ Score(q, vecs[i]) > Score(q, vecs[j])
    \/ Score(q, vecs[i]) = Score(q, vecs[j]) /\ i < j

\* the corpus ids 1..n ordered by falling score
SortedHits(n, q, vecs) ==
    SortSeq([i \in 1..n |-> i], LAMBDA i, j : Before(i, j, q, vecs))

\* util.semantic_search(query_embedding, corpus_embeddings, top_k=k)[0]
semantic_search(q, vecs, k) ==
    LET all == SortedHits(Len(vecs), q, vecs)
    IN  SubSeq(all, 1, IF Len(all) < k THEN Len(all) ELSE k)

(***************************************************************************)
(* The texts of the semantic path and the keyword scan.                    *)
(***************************************************************************)
\* CombinedSeparator as two line feeds
CombinedSeparator_LineFeeds == <<"\n", "\n">>

\* the separator of combined_text: a backslash, n, backslash, n
CombinedSeparator == <<"\\", "n", "\\", "n">>

\* combined_text of one post: subject + separator + converted preview html
combined_text(nr, html2text) ==
    LET subject == Get(PostData(nr), "subject", <<>>)
        content_preview_html == Get(Get(PostData(nr), "preview", EmptyDict), "html", <<>>)
        content_preview_text ==
            IF content_preview_html # <<>>
            THEN html_to_markdown(content_preview_html, html2text)
            ELSE <<>>
    IN  subject \o CombinedSeparator \o content_preview_text

\* whether the preparation loop keeps the post (combined_text.strip() is true)
KeepsPost(nr, html2text) == Strip(combined_text(nr, html2text)) # <<>>

\* the posts the preparation loop keeps, in the order of all_posts
posts_for_results(posts, html2text) ==
    SelectSeq(posts, LAMBDA nr : KeepsPost(nr, html2text))

\* post_texts_for_embedding: the combined text of every kept post
post_texts_for_embedding(posts, html2text) ==
    LET kept == posts_for_results(posts, html2text)
    IN  [i \in 1..Len(kept) |-> combined_text(kept[i], html2text)]

\* search_text with the subject alone
search_text_SubjectOnly(nr) == Get(PostData(nr), "subject", <<>>)

\* search_text of the keyword scan: subject + " " + preview text
search_text(nr) ==
    Get(PostData(nr), "subject", <<>>) \o <<" ">>
        \o Get(Get(PostData(nr), "preview", EmptyDict), "text", <<>>)

\* KeywordMatch without the lower-casing
KeywordMatch_CaseSensitive(q, nr) == Contains(q, search_text(nr))

\* query.lower() in search_text.lower()
KeywordMatch(q, nr) == Contains(Lower(q), Lower(search_text(nr)))

\* temp_results of the fallback loop over all_posts
keyword_scan(q, posts) == SelectSeq(posts, LAMBDA nr : KeywordMatch(q, nr))

\* semantic_results in the order of the feed
semantic_results_Unranked(q, posts, vecs, html2text) ==
    SubSeq(posts, 1, IF Len(posts) < top_k THEN Len(posts) ELSE top_k)

\* the posts at the ranked hits: results of the semantic path
semantic_results(q, posts, vecs, html2text) ==
    LET kept == posts_for_results(posts, html2text)
        hits == semantic_search(EncodeText(q), vecs, top_k)
    IN  [k \in 1..Len(hits) |-> kept[hits[k]]]

(***************************************************************************)
(* dict operations on POST_CACHE.                                          *)
(***************************************************************************)
\* DictSet keeping no key but the one that is set
DictSet_DropsOthers(d, key, value) == [k \in {key} |-> value]

\* d[key] = value
DictSet(d, key, value) ==
    [k \in DOMAIN d \cup {key} |-> IF k = key THEN value ELSE d[k]]

\* IsFresh taking an entry of exactly the expiry age for fresh
IsFresh_Inclusive(cache, nid, t) ==
    /\ nid \in DOMAIN cache
    /\ t - Get(cache[nid], "timestamp", 0) <= CACHE_EXPIRY_SECONDS

\* IsFresh taking every entry for stale
IsFresh_Never(cache, nid, t) == FALSE

\* IsFresh with the comparison turned around
IsFresh_Reversed(cache, nid, t) ==
    /\ nid \in DOMAIN cache
    /\ t - Get(cache[nid], "timestamp", 0) > CACHE_EXPIRY_SECONDS

\* cached_data is there and younger than the expiry window
IsFresh(cache, nid, t) ==
    /\ nid \in DOMAIN cache
    /\ t - Get(cache[nid], "timestamp", 0) < CACHE_EXPIRY_SECONDS

\* StorePosts storing the first page only
StorePosts_FirstPage(cache, nid, posts, t) ==
    DictSet(cache, nid,
            [posts |-> SubSeq(posts, 1, IF Len(posts) < limit THEN Len(posts) ELSE limit),
             timestamp |-> t])

\* StorePosts leaving the timestamp of an entry that is already there
StorePosts_KeepsStamp(cache, nid, posts, t) ==
    DictSet(cache, nid,
            [posts |-> posts,
             timestamp |-> IF nid \in DOMAIN cache THEN cache[nid].timestamp ELSE t])

\* CachedEmbeddings never taking the vectors of the entry
CachedEmbeddings_Forgotten(cache, nid, fresh, model) == None

\* lines 331-332: the cached vectors, taken with a fresh entry and a loaded model
CachedEmbeddings(cache, nid, fresh, model) ==
    IF fresh /\ model /\ "embeddings" \in DOMAIN cache[nid]
    THEN Some(cache[nid].embeddings)
    ELSE None

\* POST_CACHE[nid] = {'posts': posts, 'timestamp': t}
StorePosts(cache, nid, posts, t) ==
    DictSet(cache, nid, [posts |-> posts, timestamp |-> t])

\* AttachEmbeddings adding the vectors to those the entry holds
AttachEmbeddings_Appends(cache, nid, kept, embeddings, t) ==
    DictSet(cache, nid,
            [posts |-> cache[nid].posts,
             embeddings |-> Get(cache[nid], "embeddings", <<>>) \o embeddings,
             timestamp |-> t])

\* AttachEmbeddings leaving the timestamp of the entry
AttachEmbeddings_KeepsStamp(cache, nid, kept, embeddings, t) ==
    DictSet(cache, nid,
            [posts |-> IF nid \in DOMAIN cache THEN cache[nid].posts ELSE kept,
             embeddings |-> embeddings,
             timestamp |-> IF nid \in DOMAIN cache THEN cache[nid].timestamp ELSE t])

\* lines 424-429: the cache after the embeddings of a search were computed at time t
AttachEmbeddings(cache, nid, kept, embeddings, t) ==
    IF nid \in DOMAIN cache
    THEN DictSet(cache, nid,
                 [posts |-> cache[nid].posts, embeddings |-> embeddings, timestamp |-> t])
    ELSE DictSet(cache, nid,
                 [posts |-> kept, embeddings |-> embeddings, timestamp |-> t])

(***************************************************************************)
(* _show_post: the lines of a thread.  An entry of the thread is a dict    *)
(* (a record whose fields may be missing); a line is what one Padding of   *)
(* rendered_elements holds: its text, its left padding, which part of the  *)
(* entry it shows, and the id of the entry it was rendered from.           *)
(***************************************************************************)
\* window_size = 12 in _show_post
window_size == 12

\* the str 'no'
No == <<"n", "o">>

\* RolePrefix with a marker for the post and its answers only
RolePrefix_AnswersOnly(role) ==
    CASE role = "instructor" -> <<"[INSTRUCTOR] ">>
      [] role = "student" -> <<"[STUDENT] ">>
      [] role = "op" -> <<"[OP] ">>
      [] OTHER -> <<>>

\* lines 583-595: the marker of a role
RolePrefix(role) ==
    CASE role = "instructor" -> <<"[INSTRUCTOR] ">>
      [] role = "student" -> <<"[STUDENT] ">>
      [] role = "op" -> <<"[OP] ">>
      [] role = "followup" -> <<"[FOLLOWUP] ">>
      [] role = "comment" -> <<"[COMMENT] ">>
      [] role = "note" -> <<"[NOTE] ">>
      [] OTHER -> <<>>

\* role == 'op' and 'history' in entry and entry['history']
OpWithHistory(entry, role) ==
    role = "op" /\ "history" \in DOMAIN entry /\ entry.history # <<>>

\* f"Anonymous ({anon})" if anon else "Anonymous"
Anonymous(anon) ==
    IF anon # <<>> THEN <<"Anonymous (">> \o anon \o <<")">> ELSE <<"Anonymous">>

\* lines 608-626: display_name, empty where the code leaves it None or ''
display_name(entry, role) ==
    IF OpWithHistory(entry, role)
    THEN LET op_info == entry.history[1]
         IN  IF Get(op_info, "anon", <<>>) = No /\ "uid" \in DOMAIN op_info
             THEN op_info.uid
             ELSE IF Get(op_info, "anon", No) # No
                  THEN Anonymous(op_info.anon)
                  ELSE <<>>
    ELSE LET named ==
                 IF "name" \in DOMAIN entry THEN entry.name
                 ELSE IF /\ "anon_name" \in DOMAIN entry
                         /\ entry.anon_name # <<>>
                         /\ entry.anon_name # <<"Anonymous">>
                      THEN entry.anon_name
                 ELSE IF /\ "uid" \in DOMAIN entry
                         /\ ~Contains(<<"@">>, entry.uid)
                         /\ ~Contains(<<".">>, entry.uid)
                      THEN entry.uid
                 ELSE <<>>
         IN  IF named # <<>> THEN named
             ELSE IF Get(entry, "anon", No) # No THEN Anonymous(entry.anon)
             ELSE <<"User">>

\* lines 614 and 627: created_ts, empty where it is None
created_ts(entry, role) ==
    IF OpWithHistory(entry, role)
    THEN Get(entry.history[1], "created", <<>>)
    ELSE Get(entry, "created", <<>>)

\* lines 644-646: subject_str, empty where it is None
subject_str(entry, role) ==
    IF OpWithHistory(entry, role) THEN Get(entry.history[1], "subject", <<>>) ELSE <<>>

\* lines 652-665: html_content_str, empty where it is None
html_content_str(entry, role) ==
    IF OpWithHistory(entry, role) THEN Get(entry.history[1], "content", <<>>)
    ELSE IF role \in {"student", "instructor"}
         THEN IF Get(entry, "subject", <<>>) # <<>>
              THEN <<"<", "h", "3", ">">> \o entry.subject \o <<"<", "/", "h", "3", ">">>
                       \o Get(entry, "content", <<>>)
              ELSE Get(entry, "content", <<>>)
    ELSE IF role \in {"followup", "comment", "note"} THEN Get(entry, "subject", <<>>)
    ELSE <<>>

\* one Padding of rendered_elements
Line(entry, left, part, text) ==
    [of |-> entry.id, left |-> left, part |-> part, text |-> text]

\* the list holding x if the condition is true, else the empty list
When(cond, x) == IF cond THEN <<x>> ELSE <<>>

\* lines 598-715: rendered_elements before the placeholders are looked at
rendered_parts(entry, indent, role, html2text) ==
    LET prefix == RolePrefix(role)
        author == display_name(entry, role)
                      \o (IF created_ts(entry, role) # <<>>
                          THEN <<" (">> \o created_ts(entry, role) \o <<")">>
                          ELSE <<>>)
        subject == subject_str(entry, role)
        html == html_content_str(entry, role)
        processed_html_content == Strip(html_to_markdown(html, html2text))
        endorsers == Get(entry, "tag_good_arr", <<>>)
    IN  When(prefix # <<>>, Line(entry, indent * 4, "prefix", prefix))
        \o When(author # <<>>, Line(entry, indent * 4 + 2, "author", author))
        \o When(subject # <<>> /\ role = "op",
                Line(entry, indent * 4 + 2, "subject", Strip(subject)))
        \o When(html # <<>> /\ processed_html_content # <<>>,
                Line(entry, indent * 4 + 2, "content", processed_html_content))
        \o When(html = <<>> /\ role = "op" /\ subject = <<>>,
                Line(entry, indent * 4 + 2, "content", <<"[Empty post content]">>))
        \o When(endorsers # <<>>,
                Line(entry, indent * 4 + 4, "endorsed",
                     [i \in 1..Len(endorsers) |->
                          Get(endorsers[i], "endorser_name", <<"An endorser">>)]))
        \o When(role = "op" /\ Get(entry, "type", "") = "poll",
                Line(entry, indent * 4 + 2, "poll", <<"[POLL]">>))

\* render_entry without the marker line and without the placeholders
render_entry_BodyOnly(entry, indent, role, html2text) ==
    SelectSeq(rendered_parts(entry, indent, role, html2text),
              LAMBDA l : l.part # "prefix")

\* render_entry(entry, indent, role)
render_entry(entry, indent, role, html2text) ==
    LET rendered_elements == rendered_parts(entry, indent, role, html2text)
    IN  IF rendered_elements # <<>> THEN rendered_elements
        ELSE IF RolePrefix(role) # <<>>
             THEN <<Line(entry, indent * 4 + 2, "placeholder", <<"...">>)>>
             ELSE <<Line(entry, indent * 4 + 2, "placeholder", <<"[empty entry]">>)>>

RECURSIVE walk_children(_, _, _)
\* walk_children(children_data, current_indent)
walk_children(children_data, current_indent, html2text) ==
    IF children_data = <<>> THEN <<>>
    ELSE LET child_item == Head(children_data)
         IN  render_entry(child_item, current_indent, "comment", html2text)
                 \o (IF Get(child_item, "children", <<>>) # <<>>
                     THEN walk_children(child_item.children, current_indent + 1, html2text)
                     ELSE <<>>)
                 \o walk_children(Tail(children_data), current_indent, html2text)

\* role_to_render knowing the two answer types only
role_to_render_AnswersOnly(child_item) ==
    LET item_type == Get(child_item, "type", "")
    IN  CASE item_type = "s_answer" -> "student"
          [] item_type = "i_answer" -> "instructor"
          [] OTHER -> "comment"

\* lines 744-759: the role a direct child of the post is rendered with
role_to_render(child_item) ==
    LET item_type == Get(child_item, "type", "")
    IN  CASE item_type = "s_answer" -> "student"
          [] item_type = "i_answer" -> "instructor"
          [] item_type = "followup" -> "followup"
          [] item_type = "note" -> "note"
          [] OTHER -> "comment"

RECURSIVE walk_direct_children(_, _)
\* lines 743-765: the loop over the direct children of the post
walk_direct_children(children_of_post, html2text) ==
    IF children_of_post = <<>> THEN <<>>
    ELSE LET child_item == Head(children_of_post)
         IN  render_entry(child_item, 1, role_to_render(child_item), html2text)
                 \o (IF Get(child_item, "children", <<>>) # <<>>
                     THEN walk_children(child_item.children, 2, html2text)
                     ELSE <<>>)
                 \o walk_direct_children(Tail(children_of_post), html2text)

\* walk_thread(current_post_data)
walk_thread(current_post_data, html2text) ==
    render_entry(current_post_data, 0, "op", html2text)
        \o walk_direct_children(Get(current_post_data, "children", <<>>), html2text)

\* lines 777-785 of render_window: pos as the window is drawn
ClampPos(p, total) ==
    IF total <= window_size THEN 0
    ELSE IF p > total - window_size THEN total - window_size
    ELSE IF p < 0 THEN 0
    ELSE p

(***************************************************************************)
(* State.                                                                  *)
(***************************************************************************)
VARIABLES
    POST_CACHE,       \* the global dict: course nid -> entry
    sentence_model,   \* TRUE: the model was loaded; FALSE: self.sentence_model is None
    html2text,        \* TRUE: html2text was importable
    now,              \* time.time()
    ticks,            \* how often the clock has advanced
    courses,          \* the nids of self.courses, the classes of the user
    feedLen,          \* per course: the number of posts its feed holds
    pc,               \* where _alt_search_in_course stands
    course_nid,       \* the course of the search
    query,            \* the query as typed
    all_posts,        \* the local list all_posts
    post_embeddings,  \* the local post_embeddings (None or the vectors)
    offset,           \* the offset of the next page request
    results,          \* the result list of the search
    aliased,          \* all_posts is the very list cached_data['posts']
    requests,         \* the offsets of the get_feed calls of this search, in order
    failed,           \* a get_feed call of this search raised
    was_stale,        \* the search found an entry older than the window
    store_time,       \* the time at which this search stored its walk, if it did
    encoded,          \* the lengths of the text lists this search had encoded
    query_encodes,    \* the number of query encode calls of this search
    rank_calls,       \* the number of semantic_search calls of this search
    keyword_scans,    \* the number of keyword scans of this search
    outcome,          \* how the search ended
    in_init,          \* do_courses runs inside __init__ (login with cached credentials)
    encode_calls,     \* per course: corpus encode calls since its entry was stored
    encode_done,      \* per course: those of them that returned vectors
    last_walk,        \* per course: when its last page walk ended, with how many posts,
                      \* and whether a request of it had failed
    screen,           \* "list": a list of posts is shown; "post": _show_post is running
    post,             \* the thread net.get_post returned (None outside _show_post)
    thread_lines,     \* the local thread_lines of _show_post
    pos,              \* the local pos: the index of the top line of the window
    keys,             \* the number of key events _show_post has handled
    last_key,         \* the name of the last key event
    shown,            \* the lines of the panel the Live display was last given
    model_load,       \* how loading the model went in __init__
    logged_in,        \* self.logged_in
    menu_pc,          \* where cmdloop and do_courses stand
    sorted_courses,   \* the local sorted_courses of do_courses (empty outside it)
    page,             \* the local page of do_courses
    total_pages,      \* the local total_pages of do_courses
    fetches,          \* the number of get_user_classes calls so far
    input_seen        \* the user was asked for input since the last of these calls

locals == <<course_nid, query, all_posts, post_embeddings, offset, results, aliased>>
calls == <<requests, failed, encoded, query_encodes, rank_calls, keyword_scans>>
notes == <<was_stale, store_time, outcome>>
history == <<encode_calls, encode_done, last_walk>>
env == <<sentence_model, model_load, html2text, courses, feedLen>>
clock == <<now, ticks>>
view == <<screen, post, thread_lines, pos, keys, last_key, shown>>
menu == <<logged_in, menu_pc, sorted_courses, page, total_pages, fetches, input_seen>>
vars == <<POST_CACHE, pc, in_init, locals, calls, notes, history, env, clock, view, menu>>

\* the steps the clock may take between two readings
TickSteps == {CACHE_EXPIRY_SECONDS - 1, CACHE_EXPIRY_SECONDS}

\* the locals and the call record of a search that has not begun
Idle ==
    /\ course_nid = 0
    /\ query = None
    /\ all_posts = <<>>
    /\ post_embeddings = None
    /\ offset = 0
    /\ results = <<>>
    /\ aliased = FALSE
    /\ requests = <<>>
    /\ failed = FALSE
    /\ was_stale = FALSE
    /\ store_time = None
    /\ encoded = <<>>
    /\ query_encodes = 0
    /\ rank_calls = 0
    /\ keyword_scans = 0
    /\ outcome = "none"

\* lines 63-79: the library is missing, or the one SentenceTransformer(...) call
\* of the constructor raised, or it returned the model
ModelLoads == {"no_library", "failed", "loaded"}

\* ModelAfterLoad with a model whatever the load did
ModelAfterLoad_Always(load) == TRUE

\* lines 63-76: self.sentence_model is the model if it was loaded, else None
ModelAfterLoad(load) == load = "loaded"

\* the locals of _show_post while no post is shown
ViewIdle ==
    /\ screen = "list"
    /\ post = None
    /\ thread_lines = <<>>
    /\ pos = 0
    /\ keys = 0
    /\ last_key = "none"
    /\ shown = <<>>

\* lines 196-199 and 216: the state of do_courses while a search or a post
\* view it has called runs: the classes of the user were fetched once, and the
\* menu stands on the first page of them
PAGE_SIZE == 30

\* line 196: the sorted list of n courses, each course named by its place in
\* the order of the terms
SortedCourses(n) == [i \in 1..n |-> i]

\* line 199
TotalPages(sorted) == (Len(sorted) + PAGE_SIZE - 1) \div PAGE_SIZE

MenuIdle ==
    /\ logged_in = TRUE
    /\ menu_pc = "select"
    /\ sorted_courses = SortedCourses(Cardinality(courses))
    /\ page = 0
    /\ total_pages = TotalPages(SortedCourses(Cardinality(courses)))
    /\ fetches = 1
    /\ input_seen = FALSE

\* PiazzaCLI.__init__: the model is loaded once, or sentence_model stays None;
\* with cached credentials the course menu runs inside the constructor's try
Init ==
    /\ POST_CACHE = EmptyDict
    /\ model_load \in ModelLoads
    /\ sentence_model = ModelAfterLoad(model_load)
    /\ html2text \in BOOLEAN
    /\ now = 0
    /\ ticks = 0
    /\ courses = {1}
    /\ feedLen \in [courses -> FeedSizes]
    /\ pc = "menu"
    /\ Idle
    /\ ViewIdle
    /\ MenuIdle
    /\ in_init \in BOOLEAN
    /\ encode_calls = [c \in courses |-> 0]
    /\ encode_done = [c \in courses |-> 0]
    /\ last_walk = [c \in courses |-> None]

(***************************************************************************)
(* The environment: the clock advances before it is read (at the prompt,   *)
(* after the walk, after the corpus encode), and a post is added to a feed *)
(* while no search runs.                                                   *)
(***************************************************************************)
Tick(d) ==
    /\ pc \in {"menu", "store", "embed"}
    /\ ticks < MaxTicks
    /\ now' = now + d
    /\ ticks' = ticks + 1
    /\ UNCHANGED <<POST_CACHE, pc, in_init, locals, calls, notes, history, env>>
    /\ UNCHANGED <<view, menu>>

NewPost(c) ==
    /\ pc = "menu"
    /\ feedLen[c] + 1 \in FeedSizes
    /\ feedLen' = [feedLen EXCEPT ![c] = @ + 1]
    /\ UNCHANGED <<POST_CACHE, pc, in_init, locals, calls, notes, history,
                   sentence_model, model_load, html2text, courses, clock>>
    /\ UNCHANGED <<view, menu>>

(***************************************************************************)
(* _alt_search_in_course, lines 315-332: the query prompt and the cache    *)
(* check.                                                                  *)
(***************************************************************************)
AskQuery(c, q) ==
    /\ pc = "menu"
    /\ course_nid' = c
    /\ query' = q
    /\ IF ~Truthy(q)
       THEN /\ pc' = "done"
            /\ outcome' = "empty_query"
            /\ UNCHANGED <<all_posts, post_embeddings, aliased, was_stale>>
       ELSE LET fresh == IsFresh(POST_CACHE, c, now)
                posts == IF fresh THEN POST_CACHE[c].posts ELSE <<>>
            IN  /\ all_posts' = posts
                /\ post_embeddings' = CachedEmbeddings(POST_CACHE, c, fresh, sentence_model)
                /\ aliased' = fresh
                /\ was_stale' = (c \in DOMAIN POST_CACHE /\ ~fresh)
                /\ pc' = IF posts = <<>> THEN "walk" ELSE "search"
                /\ UNCHANGED outcome
    /\ UNCHANGED <<POST_CACHE, in_init, offset, results, calls, store_time, history,
                   env, clock>>
    /\ UNCHANGED <<view, menu>>

(***************************************************************************)
(* Lines 340-355: one turn of the page walk.  The request returns the page *)
(* at the offset or raises.                                                *)
(***************************************************************************)
\* line 343: not feed or not feed.get('feed')
FeedIsEmpty(batch) == batch = <<>>

\* NextOffset one short of the page size
NextOffset_OneShort(off, lim) == off + lim - 1

\* line 349: offset += limit
NextOffset(off, lim) == off + lim

\* ShortPage taking no page for the last
ShortPage_Never(batch, lim) == FALSE

\* line 350: len(current_batch) < limit
ShortPage(batch, lim) == Len(batch) < lim

\* AfterFailedRequest with the exception raised again
AfterFailedRequest_Reraised == "raised"

\* lines 353-355: the handler prints the error and leaves the loop
AfterFailedRequest == "store"

GetFeedPage(raises) ==
    /\ pc = "walk"
    /\ requests' = Append(requests, offset)
    /\ IF raises
       THEN /\ failed' = TRUE
            /\ pc' = AfterFailedRequest
            /\ UNCHANGED <<all_posts, offset, POST_CACHE>>
       ELSE LET current_batch == FeedPage(feedLen[course_nid], limit, offset)
            IN  /\ failed' = failed
                /\ IF FeedIsEmpty(current_batch)
                   THEN /\ pc' = "store"
                        /\ UNCHANGED <<all_posts, offset, POST_CACHE>>
                   ELSE /\ all_posts' = all_posts \o current_batch
                        /\ POST_CACHE' =
                               IF aliased
                               THEN [POST_CACHE EXCEPT ![course_nid].posts = all_posts']
                               ELSE POST_CACHE
                        /\ offset' = NextOffset(offset, limit)
                        /\ pc' = IF ShortPage(current_batch, limit) THEN "store" ELSE "walk"
    /\ UNCHANGED <<in_init, course_nid, query, post_embeddings, results, aliased, encoded,
                   query_encodes, rank_calls, keyword_scans, notes, history, env, clock>>
    /\ UNCHANGED <<view, menu>>

(***************************************************************************)
(* Lines 357-364: after the walk, return on no posts or store the entry.   *)
(***************************************************************************)
\* NoPosts never returning early
NoPosts_Never(posts) == FALSE

\* NoPosts returning early on the walks that gave a post
NoPosts_Inverted(posts) == posts # <<>>

\* line 357: not all_posts
NoPosts(posts) == posts = <<>>

StoreWalk ==
    /\ pc = "store"
    /\ last_walk' = [last_walk EXCEPT ![course_nid] =
                        Some([at |-> now, n |-> Len(all_posts), failed |-> failed])]
    /\ IF NoPosts(all_posts)
       THEN /\ pc' = "done"
            /\ outcome' = "no_posts"
            /\ UNCHANGED <<POST_CACHE, store_time, encode_calls, encode_done>>
       ELSE /\ POST_CACHE' = StorePosts(POST_CACHE, course_nid, all_posts, now)
            /\ store_time' = Some(now)
            /\ encode_calls' = [encode_calls EXCEPT ![course_nid] = 0]
            /\ encode_done' = [encode_done EXCEPT ![course_nid] = 0]
            /\ pc' = "search"
            /\ UNCHANGED outcome
    /\ UNCHANGED <<in_init, locals, calls, was_stale, env, clock>>
    /\ UNCHANGED <<view, menu>>

(***************************************************************************)
(* Lines 367-415: with the model loaded, the texts of the posts are        *)
(* prepared; the search returns if there is none.                          *)
(***************************************************************************)
\* UseSemantic taking the semantic branch whatever the model is
UseSemantic_Always(model) == TRUE

\* line 367: if self.sentence_model
UseSemantic(model) == model

PrepareTexts ==
    /\ pc = "search"
    /\ UseSemantic(sentence_model)
    /\ IF post_texts_for_embedding(all_posts, html2text) = <<>>
       THEN /\ pc' = "done"
            /\ outcome' = "no_text"
       ELSE /\ pc' = "embed"
            /\ UNCHANGED outcome
    /\ UNCHANGED <<POST_CACHE, in_init, locals, calls, was_stale, store_time, history,
                   env, clock>>
    /\ UNCHANGED <<view, menu>>

(***************************************************************************)
(* Lines 417-429: the corpus is encoded unless cached vectors of the same  *)
(* length are at hand, and the vectors are put into the entry.  An encode  *)
(* call that raises is not caught in the search.                           *)
(***************************************************************************)
EmbedCorpus(raises) ==
    /\ pc = "embed"
    /\ LET texts == post_texts_for_embedding(all_posts, html2text)
           needed == \/ post_embeddings = None
                     \/ Len(Val(post_embeddings)) # Len(texts)
       IN  IF ~needed
           THEN /\ ~raises
                /\ pc' = "rank"
                /\ UNCHANGED <<POST_CACHE, post_embeddings, encoded, encode_calls,
                               encode_done>>
           ELSE /\ encoded' = Append(encoded, Len(texts))
                /\ encode_calls' = [encode_calls EXCEPT ![course_nid] = @ + 1]
                /\ IF raises
                   THEN /\ pc' = "raised"
                        /\ UNCHANGED <<POST_CACHE, post_embeddings, encode_done>>
                   ELSE /\ encode_done' = [encode_done EXCEPT ![course_nid] = @ + 1]
                        /\ post_embeddings' = Some(EncodeAll(texts))
                        /\ POST_CACHE' =
                               AttachEmbeddings(POST_CACHE, course_nid,
                                                posts_for_results(all_posts, html2text),
                                                EncodeAll(texts), now)
                        /\ pc' = "rank"
    /\ UNCHANGED <<in_init, course_nid, query, all_posts, offset, results, aliased,
                   requests, failed, query_encodes, rank_calls, keyword_scans, notes,
                   last_walk, env, clock>>
    /\ UNCHANGED <<view, menu>>

(***************************************************************************)
(* Lines 432-439: the query is encoded, the corpus ranked and the hits     *)
(* mapped to posts.                                                        *)
(***************************************************************************)
RankQuery(raises) ==
    /\ pc = "rank"
    /\ query_encodes' = query_encodes + 1
    /\ IF raises
       THEN /\ pc' = "raised"
            /\ UNCHANGED <<results, rank_calls, outcome>>
       ELSE /\ rank_calls' = rank_calls + 1
            /\ results' = semantic_results(Val(query), all_posts, Val(post_embeddings),
                                           html2text)
            /\ outcome' = "semantic"
            /\ pc' = "done"
    /\ UNCHANGED <<POST_CACHE, in_init, course_nid, query, all_posts, post_embeddings,
                   offset, aliased, requests, failed, encoded, keyword_scans, was_stale,
                   store_time, history, env, clock>>
    /\ UNCHANGED <<view, menu>>

(***************************************************************************)
(* Lines 440-449: without the model, the keyword scan over all_posts.      *)
(***************************************************************************)
KeywordScan ==
    /\ pc = "search"
    /\ ~UseSemantic(sentence_model)
    /\ keyword_scans' = keyword_scans + 1
    /\ results' = keyword_scan(Val(query), all_posts)
    /\ outcome' = "keyword"
    /\ pc' = "done"
    /\ UNCHANGED <<POST_CACHE, in_init, course_nid, query, all_posts, post_embeddings,
                   offset, aliased, requests, failed, encoded, query_encodes, rank_calls,
                   was_stale, store_time, history, env, clock>>
    /\ UNCHANGED <<view, menu>>

(***************************************************************************)
(* Lines 451-549 and every return: the results are shown (none of it       *)
(* touches the cache) and the course menu is back.                         *)
(***************************************************************************)
\* the locals and the call record as they are outside a search
Reset ==
    /\ course_nid' = 0
    /\ query' = None
    /\ all_posts' = <<>>
    /\ post_embeddings' = None
    /\ offset' = 0
    /\ results' = <<>>
    /\ aliased' = FALSE
    /\ requests' = <<>>
    /\ failed' = FALSE
    /\ was_stale' = FALSE
    /\ store_time' = None
    /\ encoded' = <<>>
    /\ query_encodes' = 0
    /\ rank_calls' = 0
    /\ keyword_scans' = 0
    /\ outcome' = "none"

Return ==
    /\ pc = "done"
    /\ pc' = "menu"
    /\ Reset
    /\ UNCHANGED <<POST_CACHE, in_init, history, env, clock>>
    /\ UNCHANGED <<view, menu>>

(***************************************************************************)
(* An exception leaves _alt_search_in_course and do_courses.  Inside       *)
(* __init__ (lines 83-93) it is caught as a failed login: _main_menu       *)
(* returns at once since logged_in is set, and cmdloop (lines 163-169)     *)
(* shows the course menu again.  Raised under cmdloop, it ends the         *)
(* process.                                                                *)
(***************************************************************************)
Propagate ==
    /\ pc = "raised"
    /\ IF in_init
       THEN /\ pc' = "menu"
            /\ in_init' = FALSE
            /\ Reset
       ELSE /\ pc' = "crashed"
            /\ UNCHANGED <<in_init, locals, calls, notes>>
    /\ UNCHANGED <<POST_CACHE, history, env, clock>>
    /\ UNCHANGED <<view, menu>>

Next ==
    \/ \E d \in TickSteps : Tick(d)
    \/ \E c \in courses : NewPost(c)
    \/ \E c \in courses, q \in Queries : AskQuery(c, q)
    \/ \E raises \in BOOLEAN : GetFeedPage(raises)
    \/ StoreWalk
    \/ PrepareTexts
    \/ \E raises \in BOOLEAN : EmbedCorpus(raises)
    \/ \E raises \in BOOLEAN : RankQuery(raises)
    \/ KeywordScan
    \/ Return
    \/ Propagate

Spec == Init /\ [][Next]_vars

(***************************************************************************)
(* The page walk alone: feeds of up to three pages, no embedding model.    *)
(***************************************************************************)
WalkFeedSizes == {0, 1, limit - 1, limit, limit + 1, 2 * limit, 2 * limit + 1}

InitWalk ==
    /\ POST_CACHE = EmptyDict
    /\ model_load = "no_library"
    /\ sentence_model = ModelAfterLoad(model_load)
    /\ html2text = FALSE
    /\ now = 0
    /\ ticks = 0
    /\ courses = {1}
    /\ feedLen \in [courses -> WalkFeedSizes]
    /\ pc = "menu"
    /\ Idle
    /\ ViewIdle
    /\ MenuIdle
    /\ in_init = FALSE
    /\ encode_calls = [c \in courses |-> 0]
    /\ encode_done = [c \in courses |-> 0]
    /\ last_walk = [c \in courses |-> None]

NextWalk ==
    \/ \E c \in courses, q \in Queries : AskQuery(c, q)
    \/ \E raises \in BOOLEAN : GetFeedPage(raises)
    \/ StoreWalk
    \/ KeywordScan
    \/ Return

SpecWalk == InitWalk /\ [][NextWalk]_vars

(***************************************************************************)
(* The threads net.get_post may return.                                    *)
(***************************************************************************)
\* a reply with nothing but its subject
Reply(id, subject) == [id |-> id, subject |-> subject]

\* a followup with one comment under it
FollowupWithComment(id) ==
    [id |-> id, type |-> "followup", subject |-> <<"w", "h", "y">>,
     children |-> <<Reply(id + 1, <<"s", "o">>)>>]

\* one post, one student answer with two comments, one followup without comments
SampleThread ==
    [id |-> 1, type |-> "question",
     history |-> <<[anon |-> No, uid |-> <<"u", "1">>, created |-> <<"t", "1">>,
                    subject |-> <<" ", "Q", " ">>,
                    content |-> <<"<", "p", ">", "q", "<", "/", "p", ">">>]>>,
     children |->
        <<[id |-> 2, type |-> "s_answer", name |-> <<"A", "l">>,
           content |-> <<"<", "b", ">", "a", "<", "/", "b", ">">>,
           subject |-> <<"T">>,
           children |-> <<Reply(3, <<"c", "1">>),
                          [id |-> 4, uid |-> <<"a", "@", "b", ".", "c">>,
                           anon |-> <<"s", "t", "u", "d">>,
                           children |-> <<>>]>>],
          [id |-> 5, type |-> "followup", subject |-> <<"f">>, anon_name |-> <<"Anonymous">>,
           children |-> <<>>]>>]

\* a post without history and without children
LonePost == [id |-> 1, type |-> "poll", name |-> <<>>]

\* a post whose content is blank, with a reply that has no field but its id
BlankThread ==
    [id |-> 1, history |-> <<[anon |-> No, content |-> <<" ">>]>>,
     children |-> <<[id |-> 2]>>]

\* a post of empty history with replies of every type, nested four deep
DeepThread ==
    [id |-> 1, type |-> "note", history |-> <<[anon |-> <<>>]>>,
     tag_good_arr |-> <<[endorser_name |-> <<"T", "A">>, role |-> <<"t", "a">>]>>,
     children |->
        <<[id |-> 2, type |-> "i_answer", uid |-> <<"u", "2">>,
           content |-> <<"y", "e", "s">>,
           tag_good_arr |-> <<[role |-> <<"s">>]>>,
           children |->
              <<[id |-> 3, subject |-> <<"<", "i", ">", "<", "/", "i", ">">>,
                 children |->
                    <<[id |-> 4, subject |-> <<"o", "k">>, created |-> <<"t", "4">>,
                       children |-> <<Reply(5, <<"!">>)>>],
                      Reply(6, <<>>)>>],
                Reply(7, <<"7">>)>>],
          [id |-> 8, type |-> "note", subject |-> <<"n">>],
          [id |-> 9, type |-> "dupe", subject |-> <<"d">>,
           children |-> <<Reply(10, <<"x">>)>>],
          [id |-> 11, subject |-> <<"m">>],
          [id |-> 12, type |-> "followup", children |-> <<Reply(13, <<"z">>)>>]>>]

\* a post with n followups, each with one comment
WideThread(n) ==
    [id |-> 1, history |-> <<[anon |-> No, subject |-> <<"W">>]>>,
     children |-> [i \in 1..n |-> FollowupWithComment(2 * i)]]

Threads ==
    {SampleThread, LonePost, BlankThread, DeepThread}
        \cup {WideThread(n) : n \in 2..5}

(***************************************************************************)
(* _show_post, lines 572-837: the thread is fetched and flattened, the     *)
(* window is drawn, and key events scroll it or end the view.              *)
(***************************************************************************)
\* line 772: total_renderable_items = len(thread_lines)
total_renderable_items == Len(thread_lines)

\* visible showing the first window whatever pos is
visible_FromTop(lines, p) ==
    SubSeq(lines, 1, IF Len(lines) < window_size THEN Len(lines) ELSE window_size)

\* lines 777-786 of render_window: visible, the lines put into the panel
visible(lines, p) ==
    IF Len(lines) <= window_size THEN lines
    ELSE SubSeq(lines, ClampPos(p, Len(lines)) + 1,
                ClampPos(p, Len(lines)) + window_size)

\* scroll_up moving without the test for the top
scroll_up_Unguarded(p, total) == p - 1

\* lines 804-807: the up key
scroll_up(p, total) == IF p > 0 THEN ClampPos(p - 1, total) ELSE p

\* scroll_down testing only that the thread is longer than the window
scroll_down_PastEnd(p, total) == IF total > window_size THEN p + 1 ELSE p

\* lines 808-812: the down key
scroll_down(p, total) ==
    IF total > window_size /\ p < total - window_size
    THEN ClampPos(p + 1, total)
    ELSE p

ShowPost(p) ==
    /\ screen = "list"
    /\ screen' = "post"
    /\ post' = Some(p)
    /\ thread_lines' = walk_thread(p, html2text)
    /\ pos' = ClampPos(0, Len(walk_thread(p, html2text)))
    /\ shown' = visible(walk_thread(p, html2text), 0)
    /\ keys' = 0
    /\ last_key' = "none"
    /\ UNCHANGED <<POST_CACHE, pc, in_init, locals, calls, notes, history, env, clock,
                 menu>>

KeyUp ==
    /\ screen = "post"
    /\ keys < MaxKeys
    /\ keys' = keys + 1
    /\ last_key' = "up"
    /\ pos' = scroll_up(pos, total_renderable_items)
    /\ shown' = IF pos > 0 THEN visible(thread_lines, pos - 1) ELSE shown
    /\ UNCHANGED <<screen, post, thread_lines>>
    /\ UNCHANGED <<POST_CACHE, pc, in_init, locals, calls, notes, history, env, clock,
                 menu>>

KeyDown ==
    /\ screen = "post"
    /\ keys < MaxKeys
    /\ keys' = keys + 1
    /\ last_key' = "down"
    /\ pos' = scroll_down(pos, total_renderable_items)
    /\ shown' = IF total_renderable_items > window_size
                    /\ pos < total_renderable_items - window_size
                 THEN visible(thread_lines, pos + 1)
                 ELSE shown
    /\ UNCHANGED <<screen, post, thread_lines>>
    /\ UNCHANGED <<POST_CACHE, pc, in_init, locals, calls, notes, history, env, clock,
                 menu>>

\* lines 813-837: c (after the comment prompt), b, escape and q leave the loop
LeavePost(key) ==
    /\ screen = "post"
    /\ screen' = "list"
    /\ post' = None
    /\ thread_lines' = <<>>
    /\ pos' = 0
    /\ keys' = 0
    /\ last_key' = key
    /\ shown' = <<>>
    /\ UNCHANGED <<POST_CACHE, pc, in_init, locals, calls, notes, history, env, clock,
                 menu>>

InitPost ==
    /\ POST_CACHE = EmptyDict
    /\ model_load = "no_library"
    /\ sentence_model = ModelAfterLoad(model_load)
    /\ html2text \in BOOLEAN
    /\ now = 0
    /\ ticks = 0
    /\ courses = {1}
    /\ feedLen = [c \in courses |-> 0]
    /\ pc = "menu"
    /\ Idle
    /\ ViewIdle
    /\ MenuIdle
    /\ in_init = FALSE
    /\ encode_calls = [c \in courses |-> 0]
    /\ encode_done = [c \in courses |-> 0]
    /\ last_walk = [c \in courses |-> None]

NextPost ==
    \/ \E p \in Threads : ShowPost(p)
    \/ KeyUp
    \/ KeyDown
    \/ \E key \in {"c", "b", "escape", "q"} : LeavePost(key)

SpecPost == InitPost /\ [][NextPost]_vars

(***************************************************************************)
(* Searches on two courses with small feeds, one after the other in any    *)
(* order.                                                                  *)
(***************************************************************************)
TwoFeedSizes == {1, 2}

InitTwo ==
    /\ POST_CACHE = EmptyDict
    /\ model_load \in {"failed", "loaded"}
    /\ sentence_model = ModelAfterLoad(model_load)
    /\ html2text = FALSE
    /\ now = 0
    /\ ticks = 0
    /\ courses = {1, 2}
    /\ feedLen \in [courses -> TwoFeedSizes]
    /\ pc = "menu"
    /\ Idle
    /\ ViewIdle
    /\ MenuIdle
    /\ in_init = FALSE
    /\ encode_calls = [c \in courses |-> 0]
    /\ encode_done = [c \in courses |-> 0]
    /\ last_walk = [c \in courses |-> None]

NextTwo ==
    \/ \E d \in TickSteps : Tick(d)
    \/ \E c \in courses, q \in Queries : AskQuery(c, q)
    \/ \E raises \in BOOLEAN : GetFeedPage(raises)
    \/ StoreWalk
    \/ PrepareTexts
    \/ \E raises \in BOOLEAN : EmbedCorpus(raises)
    \/ \E raises \in BOOLEAN : RankQuery(raises)
    \/ KeywordScan
    \/ Return
    \/ Propagate

SpecTwo == InitTwo /\ [][NextTwo]_vars

(***************************************************************************)
(* Lines 424-429 alone: a search stands behind its corpus encode, and      *)
(* vectors are put into the entry of its course, again and again, while    *)
(* the clock advances.                                                     *)
(***************************************************************************)
AttachFeedSizes == {1, 2}

\* the values a component of a vector may have
VectorValues == {0, 1, 2}

InitAttach ==
    /\ \E n \in AttachFeedSizes :
           /\ feedLen = [c \in {1} |-> n]
           /\ all_posts = FeedPage(n, limit, 0)
           /\ POST_CACHE = StorePosts(EmptyDict, 1, FeedPage(n, limit, 0), 0)
           /\ last_walk = [c \in {1} |-> Some([at |-> 0, n |-> n, failed |-> FALSE])]
    /\ model_load = "loaded"
    /\ sentence_model = ModelAfterLoad(model_load)
    /\ html2text = FALSE
    /\ now = 0
    /\ ticks = 0
    /\ courses = {1}
    /\ pc = "embed"
    /\ course_nid = 1
    /\ query = Some(<<"a", "b">>)
    /\ post_embeddings = None
    /\ offset = limit
    /\ results = <<>>
    /\ aliased = FALSE
    /\ requests = <<0>>
    /\ failed = FALSE
    /\ was_stale = FALSE
    /\ store_time = Some(0)
    /\ encoded = <<>>
    /\ query_encodes = 0
    /\ rank_calls = 0
    /\ keyword_scans = 0
    /\ outcome = "none"
    /\ ViewIdle
    /\ MenuIdle
    /\ in_init = FALSE
    /\ encode_calls = [c \in courses |-> 0]
    /\ encode_done = [c \in courses |-> 0]

\* lines 424-427 with the vectors given; encode_calls counts how often the
\* same vectors were attached in a row
AttachVectors(embeddings) ==
    /\ pc = "embed"
    /\ Len(embeddings) = Len(all_posts)
    /\ post_embeddings = Some(embeddings) => encode_calls[course_nid] < MaxAttaches
    /\ POST_CACHE' = AttachEmbeddings(POST_CACHE, course_nid,
                                      posts_for_results(all_posts, html2text),
                                      embeddings, now)
    /\ post_embeddings' = Some(embeddings)
    /\ encode_calls' = [encode_calls EXCEPT ![course_nid] =
                            IF post_embeddings = Some(embeddings) THEN @ + 1 ELSE 1]
    /\ UNCHANGED <<pc, in_init, course_nid, query, all_posts, offset, results, aliased,
                   calls, notes, encode_done, last_walk, env, clock, view, menu>>

NextAttach ==
    \/ \E d \in TickSteps : Tick(d)
    \/ \E n \in AttachFeedSizes :
           \E embeddings \in [1..n -> VectorValues] : AttachVectors(embeddings)

SpecAttach == InitAttach /\ [][NextAttach]_vars

(***************************************************************************)
(* The course menu: __init__ (lines 81-93), _main_menu, cmdloop and        *)
(* do_courses.  A label of the menu is a record; the label of a course is  *)
(* its name and term and ends with a bracket, so it is none of the fixed   *)
(* labels.                                                                 *)
(***************************************************************************)
MaxFetches == 3

\* the lengths of the list get_user_classes may return
CourseCounts == {0, 1, PAGE_SIZE, PAGE_SIZE + 1, 2 * PAGE_SIZE, 2 * PAGE_SIZE + 1}

Label(kind, idx) == [kind |-> kind, idx |-> idx]

\* lines 251 and 266: the labels of the courses of the page
course_search_labels(page_courses) ==
    [i \in 1..Len(page_courses) |-> Label("course", page_courses[i])]

\* lines 201-203: sorted_courses[start:end]
page_courses(sorted, p) ==
    LET start == p * PAGE_SIZE
        end == start + PAGE_SIZE
        first == IF start < Len(sorted) THEN start ELSE Len(sorted)
        last == IF end < Len(sorted) THEN end ELSE Len(sorted)
    IN  [i \in 1..(last - first) |-> sorted[first + i]]

\* OffersNext on the last page as well
OffersNext_OnLastPage(p, total) == total > 1 /\ p <= total - 1

\* line 206
OffersNext(p, total) == total > 1 /\ p < total - 1

\* OffersPrevious on the first page as well
OffersPrevious_OnFirstPage(p, total) == total > 1 /\ p >= 0

\* line 208
OffersPrevious(p, total) == total > 1 /\ p > 0

\* lines 204-214: the choices of the select
course_labels(sorted, p, total) ==
    course_search_labels(page_courses(sorted, p))
        \o (IF OffersNext(p, total) THEN <<Label("[n] Next Page", 0)>> ELSE <<>>)
        \o (IF OffersPrevious(p, total) THEN <<Label("[p] Previous Page", 0)>> ELSE <<>>)
        \o <<Label("[s] Search", 0), Label("[q] Quit", 0), Label("[h] Help", 0),
             Label("[l] Logout", 0), Label("[a] Semantic Search", 0)>>

\* what the select may return: one of its choices, or None
Choices(labels) == {Some(labels[i]) : i \in 1..Len(labels)} \cup {None}

\* do_courses is left: its locals are gone
LeaveCourses ==
    /\ sorted_courses' = <<>>
    /\ page' = 0
    /\ total_pages' = 0

\* an exception leaves do_courses: inside __init__ it is caught at line 91,
\* _main_menu (line 93) returns at once since logged_in is set, and cmdloop
\* begins; under cmdloop nothing catches it
RaisedInCourses ==
    /\ IF in_init
       THEN /\ menu_pc' = "cmdloop"
            /\ in_init' = FALSE
       ELSE /\ menu_pc' = "crashed"
            /\ UNCHANGED in_init
    /\ LeaveCourses

\* lines 81-93: with cached credentials that log in, do_courses is called in
\* the constructor; otherwise the main menu is shown
InitCourses ==
    /\ POST_CACHE = EmptyDict
    /\ model_load = "no_library"
    /\ sentence_model = ModelAfterLoad(model_load)
    /\ html2text = FALSE
    /\ now = 0
    /\ ticks = 0
    /\ courses = {}
    /\ feedLen = [c \in courses |-> 0]
    /\ pc = "menu"
    /\ Idle
    /\ ViewIdle
    /\ in_init \in BOOLEAN
    /\ encode_calls = [c \in courses |-> 0]
    /\ encode_done = [c \in courses |-> 0]
    /\ last_walk = [c \in courses |-> None]
    /\ logged_in = in_init
    /\ menu_pc = IF in_init THEN "do_courses" ELSE "main_menu"
    /\ sorted_courses = <<>>
    /\ page = 0
    /\ total_pages = 0
    /\ fetches = 0
    /\ input_seen = FALSE

\* lines 95-105 with _login (lines 107-131): one input at the prompt of the
\* main menu; 1 logs in or ends the process, 2 ends it, anything else shows the
\* menu again.  When logged_in is set the loop ends and cmdloop is next.
MainMenu(choice, login_ok) ==
    /\ menu_pc = "main_menu"
    /\ ~logged_in
    /\ input_seen' = TRUE
    /\ IF choice = "1"
       THEN IF login_ok
            THEN /\ logged_in' = TRUE
                 /\ menu_pc' = "cmdloop"
            ELSE /\ menu_pc' = "exited"
                 /\ UNCHANGED logged_in
       ELSE IF choice = "2"
            THEN /\ menu_pc' = "exited"
                 /\ UNCHANGED logged_in
            ELSE UNCHANGED <<logged_in, menu_pc>>
    /\ UNCHANGED <<POST_CACHE, pc, in_init, locals, calls, notes, history, env, clock,
                   view, sorted_courses, page, total_pages, fetches>>

\* lines 165-169: a turn of the loop of cmdloop up to the call of do_courses
CmdLoop ==
    /\ menu_pc = "cmdloop"
    /\ menu_pc' = IF ~logged_in THEN "main_menu" ELSE "do_courses"
    /\ UNCHANGED <<POST_CACHE, pc, in_init, locals, calls, notes, history, env, clock,
                   view, logged_in, sorted_courses, page, total_pages, fetches,
                   input_seen>>

\* lines 183-199: the classes are fetched; with none, do_courses returns None
\* (to line 90, where __init__ returns, or to line 169, where no branch of
\* cmdloop takes None and the loop turns again); with some, the menu starts on
\* page 0
FetchCourses(n, raises) ==
    /\ menu_pc = "do_courses"
    /\ fetches < MaxFetches
    /\ fetches' = fetches + 1
    /\ input_seen' = FALSE
    /\ IF raises
       THEN /\ RaisedInCourses
            /\ UNCHANGED <<courses, feedLen, history>>
       ELSE /\ courses' = 1..n
            /\ feedLen' = [c \in 1..n |-> 0]
            /\ encode_calls' = [c \in 1..n |-> 0]
            /\ encode_done' = [c \in 1..n |-> 0]
            /\ last_walk' = [c \in 1..n |-> None]
            /\ IF n = 0
               THEN /\ menu_pc' = "cmdloop"
                    /\ in_init' = FALSE
                    /\ LeaveCourses
               ELSE /\ sorted_courses' = SortedCourses(n)
                    /\ page' = 0
                    /\ total_pages' = TotalPages(SortedCourses(n))
                    /\ menu_pc' = "select"
                    /\ UNCHANGED in_init
    /\ UNCHANGED <<POST_CACHE, pc, locals, calls, notes, sentence_model, model_load,
                   html2text, clock, view, logged_in>>

\* lines 216-283: the select returns one of its choices or None, and the
\* branch of the choice is taken
Select(choice) ==
    /\ menu_pc = "select"
    /\ choice \in Choices(course_labels(sorted_courses, page, total_pages))
    /\ input_seen' = TRUE
    /\ IF choice = None
       THEN UNCHANGED <<menu_pc, page>>
       ELSE LET kind == Val(choice).kind
            IN  /\ page' = IF kind = "[n] Next Page" THEN page + 1
                           ELSE IF kind = "[p] Previous Page" THEN page - 1
                           ELSE page
                /\ menu_pc' =
                       CASE kind = "[q] Quit" -> "confirm_quit"
                         [] kind = "[h] Help" -> "help"
                         [] kind = "[l] Logout" -> "confirm_logout"
                         [] kind = "[s] Search" ->
                                IF page_courses(sorted_courses, page) = <<>>
                                THEN "select" ELSE "pick_search"
                         [] kind = "[a] Semantic Search" ->
                                IF page_courses(sorted_courses, page) = <<>>
                                THEN "select" ELSE "pick_alt"
                         [] kind = "course" -> "questions"
                         [] OTHER -> "select"
    /\ UNCHANGED <<POST_CACHE, pc, in_init, locals, calls, notes, history, env, clock,
                   view, logged_in, sorted_courses, total_pages, fetches>>

\* lines 225-229 and 235-240: the answer to the confirm (None counts as no)
Confirm(confirm) ==
    /\ menu_pc \in {"confirm_quit", "confirm_logout"}
    /\ input_seen' = TRUE
    /\ menu_pc' = IF confirm THEN "exited" ELSE "select"
    /\ UNCHANGED <<POST_CACHE, pc, in_init, locals, calls, notes, history, env, clock,
                   view, logged_in, sorted_courses, page, total_pages, fetches>>

\* lines 231-233: Enter after the help table
HelpReturn ==
    /\ menu_pc = "help"
    /\ input_seen' = TRUE
    /\ menu_pc' = "select"
    /\ UNCHANGED <<POST_CACHE, pc, in_init, locals, calls, notes, history, env, clock,
                   view, logged_in, sorted_courses, page, total_pages, fetches>>

\* lines 251-261 and 266-276: the course to search in, Back or None
PickCourse(choice) ==
    /\ menu_pc \in {"pick_search", "pick_alt"}
    /\ choice \in Choices(course_search_labels(page_courses(sorted_courses, page))
                              \o <<Label("Back", 0)>>)
    /\ input_seen' = TRUE
    /\ menu_pc' = IF choice = None \/ Val(choice).kind = "Back"
                  THEN "select"
                  ELSE IF menu_pc = "pick_search" THEN "search" ELSE "alt_search"
    /\ UNCHANGED <<POST_CACHE, pc, in_init, locals, calls, notes, history, env, clock,
                   view, logged_in, sorted_courses, page, total_pages, fetches>>

\* lines 260, 275 and 282: _search_in_course, _alt_search_in_course or
\* _question_list_view returns to the loop of the menu, or raises
LeaveScreen(raises) ==
    /\ menu_pc \in {"search", "alt_search", "questions"}
    /\ IF raises
       THEN RaisedInCourses
       ELSE /\ menu_pc' = "select"
            /\ UNCHANGED <<in_init, sorted_courses, page, total_pages>>
    /\ UNCHANGED <<POST_CACHE, pc, locals, calls, notes, history, env, clock,
                   view, logged_in, fetches, input_seen>>

NextCourses ==
    \/ \E choice \in {"1", "2", "x"}, login_ok \in BOOLEAN : MainMenu(choice, login_ok)
    \/ CmdLoop
    \/ \E n \in CourseCounts, raises \in BOOLEAN : FetchCourses(n, raises)
    \/ \E i \in 0..(2 * PAGE_SIZE + 1), kind \in {"course", "[n] Next Page",
            "[p] Previous Page", "[s] Search", "[q] Quit", "[h] Help", "[l] Logout",
            "[a] Semantic Search", "None"} :
           Select(IF kind = "None" THEN None ELSE Some(Label(kind, i)))
    \/ \E confirm \in BOOLEAN : Confirm(confirm)
    \/ HelpReturn
    \/ \E i \in 0..(2 * PAGE_SIZE + 1), kind \in {"course", "Back", "None"} :
           PickCourse(IF kind = "None" THEN None ELSE Some(Label(kind, i)))
    \/ \E raises \in BOOLEAN : LeaveScreen(raises)

SpecCourses == InitCourses /\ [][NextCourses]_vars

(***************************************************************************)
(* Properties.                                                             *)
(***************************************************************************)
\* the last page walk of course c ended less than the expiry window ago
RecentWalk(c) ==
    /\ last_walk[c] # None
    /\ now - Val(last_walk[c]).at < CACHE_EXPIRY_SECONDS

\* the requests of the search are those of one walk: offsets 0, limit, 2*limit, ...
OneWalk ==
    /\ requests # <<>>
    /\ \A i \in 1..Len(requests) : requests[i] = (i - 1) * limit

\* C1 as stated: a search on a course made within the expiry window of the
\* course's previous page walk never walks the pages again, whatever that walk
\* returned.
C1_AnyWalkResult == pc = "walk" => ~RecentWalk(course_nid)

\* C1, amended: a search on a course made within the expiry window of a previous
\* page walk that returned at least one post walks no page: it is served from
\* POST_CACHE (all_posts is the cached list) and sends no get_feed request.
C1_SecondSearchFromCache ==
    /\ pc = "walk" =>
           ~(RecentWalk(course_nid) /\ Val(last_walk[course_nid]).n > 0)
    /\ aliased =>
           /\ requests = <<>>
           /\ course_nid \in DOMAIN POST_CACHE
           /\ all_posts = POST_CACHE[course_nid].posts

\* a second search ended that was served from the cache inside the window
C1_Witness ==
    /\ pc = "done"
    /\ outcome \in {"semantic", "keyword"}
    /\ aliased
    /\ requests = <<>>
    /\ RecentWalk(course_nid)

\* C2 as stated: a search that found a stale entry has walked the pages once
\* and, when it returns, the entry's timestamp is the time of that refetch,
\* for every outcome of the refetch.
C2_StampIsRefetchTime ==
    (pc = "done" /\ was_stale) =>
        /\ OneWalk
        /\ store_time # None
        /\ POST_CACHE[course_nid].timestamp = Val(store_time)

\* C2, amended: a search that found a stale entry has walked the pages once;
\* if the walk returned a post, the entry holds the walk's posts when the
\* search returns and its timestamp is the time they were stored or, once
\* embeddings were computed, the later time they were attached; if the walk
\* returned no post, nothing was stored.
C2_RefetchReplacesStamp ==
    (pc = "done" /\ was_stale) =>
        /\ OneWalk
        /\ all_posts = <<>> => store_time = None
        /\ all_posts # <<>> =>
               /\ store_time # None
               /\ Val(store_time) = Val(last_walk[course_nid]).at
               /\ POST_CACHE[course_nid].posts = all_posts
               /\ POST_CACHE[course_nid].timestamp >= Val(store_time)
               /\ POST_CACHE[course_nid].timestamp <= now
               /\ outcome = "keyword" =>
                      POST_CACHE[course_nid].timestamp = Val(store_time)

\* a search on a stale entry returned after its refetch replaced the timestamp
C2_Witness ==
    /\ pc = "done"
    /\ was_stale
    /\ store_time # None
    /\ POST_CACHE[course_nid].timestamp = Val(store_time)

RECURSIVE PagesAt(_, _)
\* the pages of a feed of n posts at the offsets offs, one after the other
PagesAt(n, offs) ==
    IF offs = <<>> THEN <<>>
    ELSE FeedPage(n, limit, Head(offs)) \o PagesAt(n, Tail(offs))

\* C3: when a page walk without a failing request has ended, the requests were
\* made at offsets 0, limit, 2*limit, ...; every page but the last was full and
\* the last was short or empty; and all_posts is the concatenation of the
\* requested pages, which is the whole feed in order, no post twice or missing.
C3_WalkReturnsFeed ==
    (requests # <<>> /\ pc # "walk" /\ ~failed) =>
        LET n == feedLen[course_nid]
            last == Len(requests)
        IN  /\ \A i \in 1..last : requests[i] = (i - 1) * limit
            /\ \A i \in 1..(last - 1) : Len(FeedPage(n, limit, requests[i])) = limit
            /\ Len(FeedPage(n, limit, requests[last])) < limit
            /\ all_posts = PagesAt(n, requests)
            /\ all_posts = [i \in 1..n |-> i]
            /\ \A i, j \in 1..Len(all_posts) : i # j => all_posts[i] # all_posts[j]

\* a walk over a feed of two full pages and a short one has ended
C3_Witness ==
    /\ pc = "store"
    /\ ~failed
    /\ requests = <<0, limit, 2 * limit>>
    /\ feedLen[course_nid] = 2 * limit + 1

\* C4: once a page request has raised, the walk is over and that request was
\* its last; the exception has not left the fetch (the search is never in the
\* raised state unless an encode call was made); all_posts is what the earlier
\* pages held, in order; and that list is what is cached and searched.
C4_FailedRequestKeepsPages ==
    failed =>
        LET earlier == SubSeq(requests, 1, Len(requests) - 1)
            kept == PagesAt(feedLen[course_nid], earlier)
        IN  /\ pc # "walk"
            /\ OneWalk
            /\ requests[Len(requests)] = offset
            /\ pc \in {"raised", "crashed"} => (encoded # <<>> \/ query_encodes > 0)
            /\ all_posts = kept
            /\ (pc = "done" /\ kept = <<>>) => (outcome = "no_posts" /\ results = <<>>)
            /\ (pc # "store" /\ kept # <<>>) => POST_CACHE[course_nid].posts = kept
            /\ \A i \in 1..Len(encoded) : encoded[i] = Len(kept)
            /\ outcome = "keyword" =>
                   \A i \in 1..Len(results) : \E j \in 1..Len(kept) : results[i] = kept[j]

\* a search went on with the first page after the request for the second raised
C4_Witness ==
    /\ failed
    /\ pc = "done"
    /\ requests = <<0, limit>>
    /\ Len(all_posts) = limit
    /\ results # <<>>

\* the step of a search in which the corpus was encoded and the vectors attached
AttachStep ==
    /\ pc = "embed"
    /\ pc' = "rank"
    /\ encoded' # encoded

\* C5 as stated: attaching vectors to the entry of a course leaves the entry's
\* timestamp and its post list unchanged.
C5_AttachKeepsStamp ==
    [][AttachStep =>
          /\ POST_CACHE'[course_nid].posts = POST_CACHE[course_nid].posts
          /\ POST_CACHE'[course_nid].timestamp = POST_CACHE[course_nid].timestamp]_vars

\* C5, amended: attaching vectors to the entry of a course leaves the entry's
\* post list unchanged; the vectors are set and the timestamp is set to the
\* time of the attach, never an earlier one than it was.
C5_AttachKeepsPosts ==
    [][AttachStep =>
          /\ DOMAIN POST_CACHE' = DOMAIN POST_CACHE
          /\ POST_CACHE'[course_nid].posts = POST_CACHE[course_nid].posts
          /\ POST_CACHE'[course_nid].embeddings = Val(post_embeddings')
          /\ POST_CACHE'[course_nid].timestamp = now
          /\ POST_CACHE'[course_nid].timestamp >= POST_CACHE[course_nid].timestamp]_vars

\* vectors were attached at a later time than the posts were stored
C5_Witness ==
    /\ pc = "rank"
    /\ encoded # <<>>
    /\ store_time # None
    /\ "embeddings" \in DOMAIN POST_CACHE[course_nid]
    /\ POST_CACHE[course_nid].timestamp > Val(store_time)

C8_AtMostTen ==
    outcome = "semantic" =>
        Len(results) = IF Len(Val(post_embeddings)) < 10
                       THEN Len(Val(post_embeddings))
                       ELSE 10

\* the lower-cased query is a substring of lower-cased subject + " " + preview text
QueryInPost(q, nr) ==
    LET text == Lower(Get(PostData(nr), "subject", <<>>) \o <<" ">>
                      \o Get(Get(PostData(nr), "preview", EmptyDict), "text", <<>>))
        word == Lower(q)
    IN  \E at \in 0..(Len(text) - Len(word)) :
            \A k \in 1..Len(word) : text[at + k] = word[k]

\* the place of post nr in the list posts
PlaceIn(posts, nr) == CHOOSE i \in 1..Len(posts) : posts[i] = nr

\* C9: the result of the keyword fallback holds exactly the posts of all_posts
\* whose lower-cased subject + " " + preview text contains the lower-cased query,
\* each once, in the order of all_posts, however many they are.
C9_KeywordSubsequence ==
    outcome = "keyword" =>
        /\ \A i \in 1..Len(all_posts) :
               QueryInPost(Val(query), all_posts[i])
                   <=> \E k \in 1..Len(results) : results[k] = all_posts[i]
        /\ \A k \in 1..Len(results) : \E i \in 1..Len(all_posts) : all_posts[i] = results[k]
        /\ \A k, l \in 1..Len(results) :
               k < l => PlaceIn(all_posts, results[k]) < PlaceIn(all_posts, results[l])

\* a keyword scan over a full page returned more than ten posts and left some out
C9_Witness ==
    /\ outcome = "keyword"
    /\ Len(results) > 10
    /\ Len(results) < Len(all_posts)

\* C10: a search with an empty query (or an aborted prompt) ends at once with no
\* results, no get_feed request, no encode call, no ranking and no keyword
\* scan, and leaves POST_CACHE as it was.
C10_EmptyQueryDoesNothing ==
    /\ [](outcome = "empty_query" =>
              /\ pc = "done"
              /\ results = <<>>
              /\ requests = <<>>
              /\ encoded = <<>>
              /\ query_encodes = 0
              /\ rank_calls = 0
              /\ keyword_scans = 0)
    /\ [][(pc = "menu" /\ pc' # "menu" /\ query' \in {None, Some(<<>>)}) =>
              /\ pc' = "done"
              /\ outcome' = "empty_query"
              /\ POST_CACHE' = POST_CACHE]_vars

\* an empty query was entered while the cache held an entry
C10_Witness ==
    /\ pc = "done"
    /\ outcome = "empty_query"
    /\ query = Some(<<>>)
    /\ course_nid \in DOMAIN POST_CACHE

\* C11: an encode call that raises during a search does not leave the search:
\* no search is ever left by an exception, and the process is never ended by
\* one.
C11_EncodeFailureContained == pc \notin {"raised", "crashed"}

\* C12: while sentence_model is None a search makes no encode call and no
\* semantic_search call, never enters the preparation, embedding or ranking
\* steps, and the results it returns are those of the keyword scan over
\* all_posts.
C12_NoModelNoEncode ==
    ~sentence_model =>
        /\ encoded = <<>>
        /\ query_encodes = 0
        /\ rank_calls = 0
        /\ \A c \in courses : encode_calls[c] = 0
        /\ pc \notin {"embed", "rank", "raised", "crashed"}
        /\ outcome \notin {"semantic", "no_text"}
        /\ \A c \in DOMAIN POST_CACHE : "embeddings" \notin DOMAIN POST_CACHE[c]
        /\ results # <<>> =>
               /\ outcome = "keyword"
               /\ keyword_scans = 1
               /\ results = keyword_scan(Val(query), all_posts)

\* a search without the model returned posts found by the keyword scan
C12_Witness ==
    /\ ~sentence_model
    /\ pc = "done"
    /\ outcome = "keyword"
    /\ results # <<>>
    /\ Len(all_posts) > 1

\* the post has an empty (or blank) subject and an empty (or blank) preview
BlankPost(nr) ==
    /\ Strip(Get(PostData(nr), "subject", <<>>)) = <<>>
    /\ Strip(Get(Get(PostData(nr), "preview", EmptyDict), "html", <<>>)) = <<>>

\* the posts of a list that are not blank
NonBlank(posts) == SelectSeq(posts, LAMBDA nr : ~BlankPost(nr))

\* C13: in semantic mode a post with empty subject and empty preview is
\* skipped: every corpus handed to encode holds only the posts that are not
\* blank, and no blank post is among the semantic results.
C13_BlankPostSkipped ==
    /\ \A i \in 1..Len(encoded) : encoded[i] = Len(NonBlank(all_posts))
    /\ outcome = "semantic" =>
           \A k \in 1..Len(results) : ~BlankPost(results[k])

\* the larger of two numbers
Max(a, b) == IF a >= b THEN a ELSE b

\* the smaller of two numbers
Min(a, b) == IF a <= b THEN a ELSE b

\* C14: while a post is shown, after any sequence of up and down key events,
\* 0 <= pos <= max(0, total lines - window_size).
C14_TopIndexInBounds ==
    /\ 0 <= pos
    /\ pos <= Max(0, total_renderable_items - window_size)

\* the down key was pressed again with the window already at the end of a
\* thread longer than the window
C14_Witness ==
    /\ screen = "post"
    /\ last_key = "down"
    /\ total_renderable_items > window_size
    /\ pos = total_renderable_items - window_size
    /\ keys > pos

\* C15: an up key event sets pos to max(0, pos - 1) and a down key event sets
\* it to min(pos + 1, max(0, total lines - window_size)); so with no more lines
\* than the window holds pos stays 0, and with more lines a down event adds
\* one below total lines - window_size and nothing at it.
C15_ScrollStep ==
    [][(screen = "post" /\ screen' = "post") =>
          LET total == total_renderable_items
              last == Max(0, total - window_size)
          IN  /\ last_key' \in {"up", "down"}
              /\ thread_lines' = thread_lines
              /\ last_key' = "up" => pos' = Max(0, pos - 1)
              /\ last_key' = "down" => pos' = Min(pos + 1, last)
              /\ total <= window_size => (pos = 0 /\ pos' = 0)
              /\ (total > window_size /\ last_key' = "down") =>
                     /\ pos < last => pos' = pos + 1
                     /\ pos = last => pos' = pos]_vars

\* the up key was pressed with the window at the top of a thread longer than
\* the window, after it had been scrolled down and up again
C15_Witness ==
    /\ screen = "post"
    /\ last_key = "up"
    /\ total_renderable_items > window_size
    /\ pos = 0
    /\ keys >= 3

\* the left padding a part of an entry has beyond that of its indent
PartOffset(part) ==
    CASE part = "prefix" -> 0
      [] part = "endorsed" -> 4
      [] OTHER -> 2

\* the depth a line was rendered at
LineDepth(l) == (l.left - PartOffset(l.part)) \div 4

\* the marker a node of the given type has at the given depth
ExpectedMarker(node, depth) ==
    IF depth = 0 THEN <<"[OP] ">>
    ELSE IF depth >= 2 THEN <<"[COMMENT] ">>
    ELSE IF "type" \notin DOMAIN node THEN <<"[COMMENT] ">>
    ELSE CASE node.type = "s_answer" -> <<"[STUDENT] ">>
           [] node.type = "i_answer" -> <<"[INSTRUCTOR] ">>
           [] node.type = "followup" -> <<"[FOLLOWUP] ">>
           [] node.type = "note" -> <<"[NOTE] ">>
           [] OTHER -> <<"[COMMENT] ">>

RECURSIVE PreOrder(_, _), PreOrderAll(_, _)
\* the nodes of the tree under node in pre-order, each with its depth and marker
PreOrder(node, depth) ==
    <<[id |-> node.id, depth |-> depth, marker |-> ExpectedMarker(node, depth)]>>
        \o PreOrderAll(IF "children" \in DOMAIN node THEN node.children ELSE <<>>,
                       depth + 1)

\* the pre-order of the trees under the nodes of a list, one after the other
PreOrderAll(nodes, depth) ==
    IF nodes = <<>> THEN <<>>
    ELSE PreOrder(Head(nodes), depth) \o PreOrderAll(Tail(nodes), depth)

\* the marker lines of a flattened thread: node, depth and marker of each
MarkerLines(lines) ==
    LET heads == SelectSeq(lines, LAMBDA l : l.part = "prefix")
    IN  [i \in 1..Len(heads) |->
            [id |-> heads[i].of, depth |-> LineDepth(heads[i]), marker |-> heads[i].text]]

\* C16: the flattened thread names the nodes of the tree in pre-order: the
\* post first at depth 0, each direct child at depth 1 in the order of the
\* children list with the marker of its type (an unknown or missing type as a
\* comment, none dropped), each followed by its descendants at depth 2 and
\* deeper, one level per nesting step; every line of a node has the node's
\* depth; and the lines are a function of the tree.
C16_FlattenIsPreOrder ==
    screen = "post" =>
        /\ MarkerLines(thread_lines) = PreOrder(Val(post), 0)
        /\ \A i \in 1..Len(thread_lines) :
               \E k \in 1..Len(PreOrder(Val(post), 0)) :
                   /\ PreOrder(Val(post), 0)[k].id = thread_lines[i].of
                   /\ PreOrder(Val(post), 0)[k].depth = LineDepth(thread_lines[i])
        /\ thread_lines = walk_thread(Val(post), html2text)

\* a thread with replies of every type, of an unknown type and of no type,
\* nested four deep, is shown
C16_Witness ==
    /\ screen = "post"
    /\ post = Some(DeepThread)
    /\ \E i \in 1..Len(thread_lines) : LineDepth(thread_lines[i]) = 4

\* C17 as stated: the flattened thread has exactly one line per node of the
\* tree; the thread of one post, one student answer with two comments and one
\* followup has 5 lines, of depths 0, 1, 2, 2, 1.
C17_OneLinePerNode ==
    screen = "post" =>
        /\ Len(thread_lines) = Len(PreOrder(Val(post), 0))
        /\ post = Some(SampleThread) =>
               [i \in 1..Len(thread_lines) |-> LineDepth(thread_lines[i])]
                   = <<0, 1, 2, 2, 1>>

\* the number of lines of a flattened thread rendered from the node id
LinesOf(lines, id) == Len(SelectSeq(lines, LAMBDA l : l.of = id))

\* C17, amended: the flattened thread has for each node of the tree one run of
\* consecutive lines, which begins with the node's marker line and has 1 to 6
\* lines (2 to 4 for a node that is not the post), so the sequence the window
\* scrolls over is at least as long as the tree has nodes; the thread of one
\* post, one student answer with two comments and one followup has 5 runs, of
\* depths 0, 1, 2, 2, 1, and 15 lines.
C17_OneRunPerNode ==
    screen = "post" =>
        LET nodes == PreOrder(Val(post), 0)
        IN  /\ Len(MarkerLines(thread_lines)) = Len(nodes)
            /\ thread_lines[1].part = "prefix"
            /\ \A i \in 2..Len(thread_lines) :
                   thread_lines[i].part # "prefix" =>
                       thread_lines[i].of = thread_lines[i - 1].of
            /\ \A k \in 1..Len(nodes) :
                   /\ LinesOf(thread_lines, nodes[k].id) >= (IF k = 1 THEN 1 ELSE 2)
                   /\ LinesOf(thread_lines, nodes[k].id) <= (IF k = 1 THEN 6 ELSE 4)
            /\ Len(thread_lines) >= Len(nodes)
            /\ post = Some(SampleThread) =>
                   /\ [k \in 1..Len(MarkerLines(thread_lines)) |->
                          MarkerLines(thread_lines)[k].depth] = <<0, 1, 2, 2, 1>>
                   /\ Len(thread_lines) = 15

\* the thread of one post, one student answer with two comments and one
\* followup is shown, with more lines than nodes
C17_Witness ==
    /\ screen = "post"
    /\ post = Some(SampleThread)
    /\ Len(thread_lines) > 5

\* the ids of the nodes of the tree under node
RECURSIVE NodeIds(_)
NodeIds(node) ==
    {node.id} \cup
        (IF "children" \in DOMAIN node
         THEN UNION {NodeIds(node.children[i]) : i \in 1..Len(node.children)}
         ELSE {})

\* C18: every node of the tree of the post shown, also one without subject
\* and body, has at least one line in the flattened thread.
C18_EveryNodeHasALine ==
    screen = "post" =>
        \A id \in NodeIds(Val(post)) :
            \E i \in 1..Len(thread_lines) : thread_lines[i].of = id

\* a post with blank content and no subject, with a reply that has no field
\* at all, is shown
C18_Witness ==
    /\ screen = "post"
    /\ post = Some(BlankThread)
    /\ LinesOf(thread_lines, 1) = 1
    /\ LinesOf(thread_lines, 2) >= 1

\* C19: in one page walk the offsets requested rise strictly, so none is
\* requested twice and a failed page is not tried again; the walk goes on only
\* while every page so far came back full and without a failure, so it makes
\* at most one request more than the feed has full pages; and once it has
\* ended, the search makes no further request.
C19_EachPageOnce ==
    /\ [](/\ \A i, j \in 1..Len(requests) : i < j => requests[i] < requests[j]
          /\ pc = "walk" =>
                 /\ ~failed
                 /\ \A i \in 1..Len(requests) :
                        Len(FeedPage(feedLen[course_nid], limit, requests[i])) = limit
          /\ (pc # "menu" /\ course_nid \in courses) =>
                 Len(requests) <= (feedLen[course_nid] \div limit) + 1
          /\ failed => requests[Len(requests)] = offset)
    /\ [][(pc # "walk" /\ requests' # requests) => requests' = <<>>]_vars

\* the walk over a feed of three pages ended at the request for the second
\* page, which failed
C19_Witness ==
    /\ pc = "store"
    /\ failed
    /\ requests = <<0, limit>>
    /\ feedLen[course_nid] = 2 * limit + 1

\* C20: a search whose page walk gave no post ends at once with an empty
\* result, without an exception, an encode call, a ranking or a keyword scan,
\* and without storing an entry.
C20_NoPostsNoSearch ==
    /\ [](/\ outcome = "no_posts" =>
                 /\ pc = "done"
                 /\ results = <<>>
                 /\ encoded = <<>>
                 /\ query_encodes = 0
                 /\ rank_calls = 0
                 /\ keyword_scans = 0
                 /\ store_time = None
          /\ (pc \notin {"menu", "walk", "store"} /\ Truthy(query) /\ all_posts = <<>>) =>
                 outcome = "no_posts")
    /\ [][(pc = "store" /\ pc' # "store" /\ all_posts = <<>>) =>
              (pc' = "done" /\ outcome' = "no_posts" /\ POST_CACHE' = POST_CACHE)]_vars

\* with the model loaded, a search on a course with an empty feed has ended
C20_Witness ==
    /\ pc = "done"
    /\ outcome = "no_posts"
    /\ sentence_model
    /\ requests = <<0>>
    /\ ~failed

\* the requests of the search that returned a page
Answered == IF failed THEN SubSeq(requests, 1, Len(requests) - 1) ELSE requests

\* C21 as stated: when a search that found a stale entry has ended, the stored
\* post list is the result of its page walk.
C21_StaleListReplaced ==
    (pc = "done" /\ was_stale) => POST_CACHE[course_nid].posts = all_posts

\* C21, amended: a search is served from the entry of its course without a
\* page walk iff the entry is there and now - timestamp < 3600; a search that
\* finds a stale entry starts a walk at offset 0 with an empty list of its own,
\* leaves the entry alone during the walk, and then replaces the whole entry by
\* the posts of the walk and the time, if the walk gave a post, or leaves the
\* entry as it was, if the walk gave none.
C21_FreshIffYoung ==
    /\ [][(pc = "menu" /\ pc' \in {"walk", "search"}) =>
              /\ pc' = "search" <=>
                     /\ course_nid' \in DOMAIN POST_CACHE
                     /\ now - POST_CACHE[course_nid'].timestamp < CACHE_EXPIRY_SECONDS
              /\ pc' = "walk" =>
                     /\ all_posts' = <<>>
                     /\ ~aliased'
                     /\ offset' = 0
                     /\ requests' = <<>>]_vars
    /\ [][(pc = "walk" /\ was_stale) => POST_CACHE' = POST_CACHE]_vars
    /\ [][(pc = "store" /\ pc' # "store" /\ was_stale) =>
              /\ all_posts = PagesAt(feedLen[course_nid], Answered)
              /\ requests[1] = 0
              /\ IF all_posts # <<>>
                 THEN /\ pc' = "search"
                      /\ POST_CACHE'[course_nid] = [posts |-> all_posts, timestamp |-> now]
                 ELSE /\ pc' = "done"
                      /\ POST_CACHE' = POST_CACHE]_vars

\* an entry of exactly the expiry age was found stale and replaced
C21_Witness ==
    /\ pc = "search"
    /\ was_stale
    /\ now = CACHE_EXPIRY_SECONDS
    /\ store_time = Some(now)
    /\ POST_CACHE[course_nid].timestamp = now

\* C22: the model is loaded at most once, in the constructor; sentence_model
\* is the model iff that load returned it and never changes afterwards, so
\* after a failed load (or without the library) no search encodes or ranks,
\* and the results of every search are those of the keyword scan.
C22_ModelLoadedOnce ==
    /\ [](/\ model_load \in ModelLoads
          /\ sentence_model <=> model_load = "loaded"
          /\ model_load # "loaded" =>
                 /\ encoded = <<>>
                 /\ query_encodes = 0
                 /\ rank_calls = 0
                 /\ outcome # "semantic"
                 /\ pc = "done" => outcome \in {"empty_query", "no_posts", "keyword"})
    /\ [][sentence_model' = sentence_model /\ model_load' = model_load]_vars

\* after the load of the model failed, a second search on a cached course
\* ended with the keyword scan
C22_Witness ==
    /\ model_load = "failed"
    /\ pc = "done"
    /\ outcome = "keyword"
    /\ aliased

\* C23: the entry stored from a page walk in which a request failed carries a
\* mark of being partial: it is not the plain entry (posts and timestamp) that
\* a complete walk returning the same posts stores.
C23_PartialIsMarked ==
    (failed /\ pc = "search" /\ store_time # None) =>
        POST_CACHE[course_nid] # [posts |-> all_posts, timestamp |-> Val(store_time)]

\* the lower-cased query is a substring of the lower-cased text
QueryIn(q, text) ==
    \E at \in 0..(Len(text) - Len(q)) :
        \A k \in 1..Len(q) : LowerChar(text[at + k]) = LowerChar(q[k])

\* the query is in the subject of the post or in its preview text
InSubjectOrPreview(q, nr) ==
    \/ QueryIn(q, Get(PostData(nr), "subject", <<>>))
    \/ QueryIn(q, Get(Get(PostData(nr), "preview", EmptyDict), "text", <<>>))

\* C24 as stated: the keyword fallback returns a post iff the case-folded
\* query is a substring of its subject or of its preview text.
C24_SubjectOrPreview ==
    outcome = "keyword" =>
        \A i \in 1..Len(all_posts) :
            InSubjectOrPreview(Val(query), all_posts[i])
                <=> \E k \in 1..Len(results) : results[k] = all_posts[i]

\* C24, amended: the keyword fallback returns every post whose subject or
\* preview text contains the case-folded query, and besides these exactly the
\* posts in which the query lies across the single space that joins subject
\* and preview text.
C24_JoinedText ==
    outcome = "keyword" =>
        \A i \in 1..Len(all_posts) :
            LET nr == all_posts[i]
                joined == Get(PostData(nr), "subject", <<>>) \o <<" ">>
                              \o Get(Get(PostData(nr), "preview", EmptyDict), "text", <<>>)
                returned == \E k \in 1..Len(results) : results[k] = nr
            IN  /\ InSubjectOrPreview(Val(query), nr) => returned
                /\ returned <=> QueryIn(Val(query), joined)

\* the keyword fallback returned a post that neither has the query in its
\* subject nor in its preview text
C24_Witness ==
    /\ outcome = "keyword"
    /\ \E k \in 1..Len(results) : ~InSubjectOrPreview(Val(query), results[k])
    /\ Len(results) < Len(all_posts)

\* the vector of the text the preparation loop builds for a post
VectorOf(nr) == EncodeText(combined_text(nr, html2text))

\* C25: when a semantic search has ranked, its vectors are index-aligned with
\* its posts (vector i is that of the text of post i), also when they were
\* taken from the cache; the results are as many as the hits (the lesser of
\* top_k and the number of vectors), each a post of the list and none twice,
\* in the order of falling score, and no post left out scores higher than one
\* returned.
C25_HitsMapToPosts ==
    outcome = "semantic" =>
        LET vecs == Val(post_embeddings)
            q == EncodeText(Val(query))
        IN  /\ Len(vecs) = Len(all_posts)
            /\ \A i \in 1..Len(all_posts) : vecs[i] = VectorOf(all_posts[i])
            /\ POST_CACHE[course_nid].embeddings = vecs
            /\ POST_CACHE[course_nid].posts = all_posts
            /\ Len(results) = Min(top_k, Len(vecs))
            /\ \A k \in 1..Len(results) : \E i \in 1..Len(all_posts) : all_posts[i] = results[k]
            /\ \A k, l \in 1..Len(results) : k # l => results[k] # results[l]
            /\ \A k \in 1..(Len(results) - 1) :
                   Score(q, VectorOf(results[k])) >= Score(q, VectorOf(results[k + 1]))
            /\ \A i \in 1..Len(all_posts) :
                   (\A k \in 1..Len(results) : results[k] # all_posts[i]) =>
                       Score(q, VectorOf(all_posts[i]))
                           <= Score(q, VectorOf(results[Len(results)]))

\* a search ranked the vectors of the cache and returned the posts in another
\* order than that of the feed
C25_Witness ==
    /\ outcome = "semantic"
    /\ aliased
    /\ encoded = <<>>
    /\ Len(results) > 1
    /\ results[1] # all_posts[1]

\* C26: while a post is shown, the lines on display are the flattened lines
\* with indices in [pos, min(pos + window_size, total lines)), which is the
\* whole thread when it has no more lines than the window.
C26_VisibleRange ==
    screen = "post" =>
        /\ shown = [i \in 1..(Min(pos + window_size, total_renderable_items) - pos)
                       |-> thread_lines[pos + i]]
        /\ total_renderable_items <= window_size => shown = thread_lines

\* after two or more keys, the window of a thread longer than it shows
\* neither the first line of the thread nor the last
C26_Witness ==
    /\ screen = "post"
    /\ pos > 0
    /\ pos + window_size < total_renderable_items
    /\ shown[1] # thread_lines[1]
    /\ Len(shown) = window_size
    /\ keys >= 2

\* C27: a step of a search changes the entry of no course but its own: the
\* entry of every other course stays as it is, there or not there.
C27_OtherCoursesUntouched ==
    [][\A b \in courses :
           b # course_nid =>
               /\ b \in DOMAIN POST_CACHE' <=> b \in DOMAIN POST_CACHE
               /\ b \in DOMAIN POST_CACHE => POST_CACHE'[b] = POST_CACHE[b]]_vars

\* a search on one course has stored its posts and attached vectors while the
\* cache holds an older entry with vectors of the other course
C27_Witness ==
    /\ pc = "rank"
    /\ encoded # <<>>
    /\ \E b \in DOMAIN POST_CACHE :
           /\ b # course_nid
           /\ "embeddings" \in DOMAIN POST_CACHE[b]
           /\ POST_CACHE[b].timestamp < POST_CACHE[course_nid].timestamp
           /\ POST_CACHE[b].posts # POST_CACHE[course_nid].posts

\* C28: a turn of the page walk leaves POST_CACHE as it is, and the list the
\* walk fills is not the list of an entry; the entry is written in the one
\* step that follows the walk and then holds every post the walk has gathered,
\* so the list of an entry is never one to which pages are still being added.
C28_EntryWrittenAfterWalk ==
    /\ [](pc = "walk" => ~aliased)
    /\ [][pc = "walk" => POST_CACHE' = POST_CACHE]_vars
    /\ [][(POST_CACHE' # POST_CACHE /\ pc # "embed") =>
              /\ pc = "store"
              /\ pc' = "search"
              /\ all_posts' = all_posts
              /\ all_posts = PagesAt(feedLen[course_nid], Answered)
              /\ POST_CACHE'[course_nid].posts = all_posts
              /\ "embeddings" \notin DOMAIN POST_CACHE'[course_nid]]_vars

\* a walk of two requests has ended with more posts than the stale entry of
\* the course holds, and that entry is still as it was
C28_Witness ==
    /\ pc = "store"
    /\ was_stale
    /\ Len(requests) = 2
    /\ ~failed
    /\ Len(POST_CACHE[course_nid].posts) < Len(all_posts)

\* the step attaches once more the vectors that were attached last
AttachesAgain ==
    /\ post_embeddings # None
    /\ post_embeddings' = post_embeddings
    /\ encode_calls' # encode_calls

C30_PartialListServed ==
    /\ [][(pc = "store" /\ pc' # "store" /\ failed /\ all_posts # <<>>) =>
              /\ pc' = "search"
              /\ POST_CACHE'[course_nid] = [posts |-> all_posts, timestamp |-> now]]_vars
    /\ [](\A c \in courses :
              (/\ course_nid = c
               /\ pc \notin {"menu", "store"}
               /\ requests = <<>>
               /\ Truthy(query)
               /\ last_walk[c] # None
               /\ Val(last_walk[c]).failed
               /\ Val(last_walk[c]).n > 0
               /\ RecentWalk(c)) =>
                  /\ pc # "walk"
                  /\ aliased
                  /\ Len(all_posts) = Val(last_walk[c]).n
                  /\ all_posts = POST_CACHE[c].posts)

\* a later search was answered from the first page of a feed of two pages,
\* the request for the second page having failed in the walk before
C30_Witness ==
    /\ pc = "done"
    /\ outcome \in {"semantic", "keyword"}
    /\ aliased
    /\ requests = <<>>
    /\ Val(last_walk[course_nid]).failed
    /\ Len(all_posts) = limit
    /\ feedLen[course_nid] = limit + 1

\* C31: a search whose page walk gives no post (the feed is empty, or the
\* first request fails) changes POST_CACHE in none of its steps, from the
\* prompt to its return, and stores no entry of its own; when it has ended, an
\* entry of its course is there iff a stale one was found at the prompt, and
\* that entry is still stale and holds the posts it held.
C31_EmptyWalkKeepsCache ==
    /\ [][(/\ pc \in {"menu", "walk", "store"}
           /\ pc' \in {"walk", "store", "done"}
           /\ all_posts' = <<>>) => POST_CACHE' = POST_CACHE]_vars
    /\ [][(pc = "done" /\ outcome = "no_posts") => POST_CACHE' = POST_CACHE]_vars
    /\ [](outcome = "no_posts" =>
              /\ store_time = None
              /\ requests # <<>>
              /\ Len(requests) = 1
              /\ course_nid \in DOMAIN POST_CACHE <=> was_stale
              /\ was_stale =>
                     /\ ~IsFresh(POST_CACHE, course_nid, now)
                     /\ POST_CACHE[course_nid].posts # <<>>
                     /\ Val(last_walk[course_nid]).n = 0)

\* the first request of a search failed while the cache held a stale entry
\* with vectors for the course, and the search has ended
C31_Witness ==
    /\ pc = "done"
    /\ outcome = "no_posts"
    /\ was_stale
    /\ failed
    /\ requests = <<0>>
    /\ "embeddings" \in DOMAIN POST_CACHE[course_nid]
    /\ feedLen[course_nid] > 0

\* do_courses is in the loop of its menu
InCourseLoop ==
    menu_pc \in {"select", "confirm_quit", "confirm_logout", "help", "pick_search",
                 "pick_alt", "search", "alt_search", "questions"}

\* C32: while do_courses is in the loop of its menu, whatever was selected
\* before, 0 <= page <= total_pages - 1, total_pages being the number of
\* courses over PAGE_SIZE rounded up; the courses exist, and the page of
\* courses shown is not empty: it holds the courses from place
\* page * PAGE_SIZE on, PAGE_SIZE of them or those that remain.  A selection
\* changes page only by one: upwards only from below total_pages - 1,
\* downwards only from above 0; and Next Page is among the choices iff
\* page < total_pages - 1, Previous Page iff page > 0.
C32_PageInRange ==
    /\ [](InCourseLoop =>
              LET shown_courses == page_courses(sorted_courses, page)
                  labels == course_labels(sorted_courses, page, total_pages)
                  rest == Len(sorted_courses) - page * PAGE_SIZE
              IN  /\ Len(sorted_courses) > 0
                  /\ total_pages * PAGE_SIZE >= Len(sorted_courses)
                  /\ (total_pages - 1) * PAGE_SIZE < Len(sorted_courses)
                  /\ 0 <= page
                  /\ page <= total_pages - 1
                  /\ shown_courses # <<>>
                  /\ Len(shown_courses) = IF rest < PAGE_SIZE THEN rest ELSE PAGE_SIZE
                  /\ \A i \in 1..Len(shown_courses) :
                         shown_courses[i] = sorted_courses[page * PAGE_SIZE + i]
                  /\ (\E k \in 1..Len(labels) : labels[k].kind = "[n] Next Page")
                         <=> page < total_pages - 1
                  /\ (\E k \in 1..Len(labels) : labels[k].kind = "[p] Previous Page")
                         <=> page > 0)
    /\ [][(InCourseLoop /\ InCourseLoop' /\ page' # page) =>
              /\ menu_pc = "select"
              /\ menu_pc' = "select"
              /\ \/ page' = page + 1 /\ page < total_pages - 1
                 \/ page' = page - 1 /\ page > 0]_vars

\* the menu stands on the third and last page of 61 courses, which shows the
\* one course that remains, and offers Previous Page but not Next Page
C32_Witness ==
    /\ menu_pc = "select"
    /\ Len(sorted_courses) = 2 * PAGE_SIZE + 1
    /\ page = 2
    /\ total_pages = 3
    /\ page_courses(sorted_courses, page) = <<2 * PAGE_SIZE + 1>>
    /\ ~OffersNext(page, total_pages)
    /\ OffersPrevious(page, total_pages)
    /\ input_seen

\* C33: the user is asked for input at least once between two calls of
\* get_user_classes that follow each other.
C33_InputBetweenFetches ==
    [][(fetches' = fetches + 1 /\ fetches > 0) => input_seen]_vars

====
